---- MODULE Spec2Model ----
(***************************************************************************)
(* Model of MastodonClientApp (mastodon_api_cleaned.py): the construction  *)
(* of the client object, statement by statement, against a configuration   *)
(* directory and a config.yaml whose content is fixed by external setup.   *)
(* Several constructions (process runs) follow each other against the same *)
(* file.                                                                   *)
(*                                                                         *)
(* Values.  A YAML scalar is a string; two markers stand for what is not a *)
(* string: "ABSENT" (the key is not in the mapping) and "NONE" (the key is *)
(* there with a null value, Python None).  A section of the configuration  *)
(* is a record with a kind ("absent": no such key, "none": null, "map": a  *)
(* mapping) and the entries the program reads.                             *)
(***************************************************************************)
EXTENDS Naturals, Sequences, FiniteSets, TLC

VARIABLES
    dirExists,    \* config_dir.is_dir()
    fileExists,   \* config_file.is_file()
    file,         \* the document stored in config.yaml
    runs,         \* constructions started so far
    pc,           \* the statement of __init__ to run next
    base_url,     \* the base_url argument of __init__
    config,       \* self.config
    attrs,        \* the attributes set on self
    user,         \* self.user, the account returned by me()
    err,          \* the exception __init__ raised, "none" if none
    failedAt,     \* the step that raised it
    calls,        \* calls made to the client library in this construction
    steps,        \* steps of __init__ completed or attempted, in order
    fileAtStart,  \* the document in config.yaml when the construction began
    pathsAtStart  \* <<dirExists, fileExists>> when the construction began

vars == <<dirExists, fileExists, file, runs, pc, base_url, config, attrs,
          user, err, failedAt, calls, steps, fileAtStart, pathsAtStart>>

\* Number of constructions against the same configuration file.
MaxRuns == 2

----------------------------------------------------------------------------
\* Values of the configuration

Absent == "ABSENT"
None == "NONE"

\* Python truth value of a scalar: None and the empty string are false.
Truthy(v) == v \notin {Absent, None, ""}

AbsentInstance == [kind |-> "absent", base_url |-> Absent]
NoneInstance == [kind |-> "none", base_url |-> Absent]
AbsentApplication == [kind |-> "absent", client_id |-> Absent, client_secret |-> Absent]
NoneApplication == [kind |-> "none", client_id |-> Absent, client_secret |-> Absent]
AbsentUser == [kind |-> "absent", username |-> Absent, password |-> Absent]
\* AttribAccessDict(): a mapping without entries
EmptyDict == [kind |-> "map", username |-> Absent, password |-> Absent]

InstanceValues ==
    {AbsentInstance, NoneInstance}
    \cup {[kind |-> "map", base_url |-> b] : b \in {Absent, None, "", "u1"}}

ApplicationValues ==
    {AbsentApplication, NoneApplication,
     [kind |-> "map", client_id |-> Absent, client_secret |-> Absent],
     [kind |-> "map", client_id |-> "", client_secret |-> ""],
     [kind |-> "map", client_id |-> "c1", client_secret |-> "s1"]}

UserValues ==
    {AbsentUser, EmptyDict,
     [kind |-> "map", username |-> "alice", password |-> "pw"]}

\* The documents config.yaml can hold: nothing at all, something that is not
\* a mapping, or a mapping with any of the three sections.
EmptyDocument ==
    [doc |-> "empty", instance |-> AbsentInstance,
     application |-> AbsentApplication, user |-> AbsentUser]
ScalarDocument ==
    [doc |-> "scalar", instance |-> AbsentInstance,
     application |-> AbsentApplication, user |-> AbsentUser]
Documents ==
    {EmptyDocument, ScalarDocument}
    \cup [doc : {"map"}, instance : InstanceValues,
          application : ApplicationValues, user : UserValues]

\* The values of the base_url argument: None, "" or a URL.
BaseUrlArgs == {None, "", "u1", "u2"}

\* self.config before _load_config has run
NoConfig ==
    [instance |-> AbsentInstance, application |-> AbsentApplication,
     user |-> AbsentUser]

----------------------------------------------------------------------------
\* Literals of the source

ClientCredFile == "my-application-clientcred.secret"
LoginEmail == "<email>"
LoginPassword == "<password>"

----------------------------------------------------------------------------
\* Attribute access and the tests of __init__

\* cfg.section.key can be read: AttribAccessDict raises AttributeError for a
\* key that is not in the mapping, and None has no attributes.
Readable(section, key) == section.kind = "map" /\ section[key] # Absent

\* The order of the statements of __init__.
StepAfterSaveFirst(step) ==
    CASE step = "check" -> "load"
      [] step = "load" -> "resolve"
      [] step = "resolve" -> "register"
      [] step = "register" -> "ensure_user"
      [] step = "ensure_user" -> "save"
      [] step = "save" -> "connect"
      [] step = "connect" -> "done"

StepAfter(step) ==
    CASE step = "check" -> "load"
      [] step = "load" -> "resolve"
      [] step = "resolve" -> "register"
      [] step = "register" -> "ensure_user"
      [] step = "ensure_user" -> "connect"
      [] step = "connect" -> "save"
      [] step = "save" -> "done"

\* The two tests on the configuration directory and file.
path_check_dir_only(d, f) == IF ~d THEN "ValueError" ELSE "ok"

path_check(d, f) ==
    IF ~d THEN "ValueError"
    ELSE IF ~f THEN "ValueError"
    ELSE "ok"

\* _load_config on a document that is empty or a mapping: an empty document
\* is the empty mapping, and every section that is a mapping is wrapped in
\* an AttribAccessDict (same entries).
load_config(document) ==
    IF document.doc = "empty" THEN NoConfig
    ELSE [instance |-> document.instance,
          application |-> document.application,
          user |-> document.user]

\* if self.config.instance.base_url and base_url: raise ValueError
resolve_if_different(cfg, arg) ==
    IF ~Readable(cfg.instance, "base_url") THEN "AttributeError"
    ELSE IF Truthy(cfg.instance.base_url) /\ Truthy(arg)
            /\ cfg.instance.base_url # arg THEN "ValueError"
    ELSE "ok"

resolve(cfg, arg) ==
    IF ~Readable(cfg.instance, "base_url") THEN "AttributeError"
    ELSE IF Truthy(cfg.instance.base_url) /\ Truthy(arg) THEN "ValueError"
    ELSE "ok"

\* if not config.get("application", {}).get("client_id", None):
\*     assert config.get("instance", None) is None
register_check_no_assert(cfg) ==
    IF cfg.application.kind = "none" THEN "AttributeError"
    ELSE IF Truthy(cfg.application.client_id) THEN "skip"
    ELSE "register"

register_check(cfg) ==
    IF cfg.application.kind = "none" THEN "AttributeError"
    ELSE IF Truthy(cfg.application.client_id) THEN "skip"
    ELSE IF cfg.instance.kind \notin {"absent", "none"} THEN "AssertionError"
    ELSE "register"

\* register_app: the application section receives the client id and secret
\* the registration returned.
register_app(cfg, id, secret) ==
    [cfg EXCEPT !.application =
        [kind |-> "map", client_id |-> id, client_secret |-> secret]]

\* if not self.config.get("user", None): self.config["user"] = AttribAccessDict()
UserFalsy(u) ==
    u.kind # "map" \/ (u.username = Absent /\ u.password = Absent)

ensure_user_wrong_key(cfg) ==
    IF UserFalsy(cfg.user)
    THEN [cfg EXCEPT !.application =
            [kind |-> "map", client_id |-> Absent, client_secret |-> Absent]]
    ELSE cfg

ensure_user(cfg) ==
    IF UserFalsy(cfg.user) THEN [cfg EXCEPT !.user = EmptyDict] ELSE cfg

----------------------------------------------------------------------------
\* The construction

Call(op, a, b) == [op |-> op, a |-> a, b |-> b]

Unchanged_fs ==
    UNCHANGED <<dirExists, fileExists, file, runs, fileAtStart, pathsAtStart>>

\* The step raises: the exception leaves __init__.
Raise(e, step) ==
    /\ pc' = "failed"
    /\ err' = e
    /\ failedAt' = step
    /\ steps' = Append(steps, step)

\* The step completes.
Continue(step) ==
    /\ pc' = StepAfter(step)
    /\ UNCHANGED <<err, failedAt>>
    /\ steps' = Append(steps, step)

Init ==
    /\ dirExists \in BOOLEAN
    /\ fileExists \in BOOLEAN
    /\ fileExists => dirExists
    /\ file \in Documents
    /\ ~fileExists => file = EmptyDocument
    /\ runs = 0
    /\ pc = "idle"
    /\ base_url = None
    /\ config = NoConfig
    /\ attrs = {}
    /\ user = None
    /\ err = "none"
    /\ failedAt = "none"
    /\ calls = <<>>
    /\ steps = <<>>
    /\ fileAtStart = file
    /\ pathsAtStart = <<dirExists, fileExists>>

\* MastodonClientApp(config_dir, base_url): config_dir and config_file are set.
Start ==
    /\ pc = "idle"
    /\ runs < MaxRuns
    /\ runs' = runs + 1
    /\ \E arg \in BaseUrlArgs : base_url' = arg
    /\ pc' = "check"
    /\ attrs' = {"config_dir", "config_file"}
    /\ fileAtStart' = file
    /\ pathsAtStart' = <<dirExists, fileExists>>
    /\ UNCHANGED <<dirExists, fileExists, file, config, user, err, failedAt,
                   calls, steps>>

CheckPaths ==
    /\ pc = "check"
    /\ IF path_check(dirExists, fileExists) = "ok"
       THEN Continue("check")
       ELSE Raise(path_check(dirExists, fileExists), "check")
    /\ Unchanged_fs
    /\ UNCHANGED <<base_url, config, attrs, user, calls>>

Load ==
    /\ pc = "load"
    /\ IF ~fileExists
       THEN Raise("FileNotFoundError", "load") /\ UNCHANGED <<config, attrs>>
       ELSE IF file.doc = "scalar"
       THEN Raise("AttributeError", "load") /\ UNCHANGED <<config, attrs>>
       ELSE /\ config' = load_config(file)
            /\ attrs' = attrs \cup {"config"}
            /\ Continue("load")
    /\ Unchanged_fs
    /\ UNCHANGED <<base_url, user, calls>>

Resolve ==
    /\ pc = "resolve"
    /\ IF resolve(config, base_url) = "ok"
       THEN Continue("resolve")
       ELSE Raise(resolve(config, base_url), "resolve")
    /\ Unchanged_fs
    /\ UNCHANGED <<base_url, config, attrs, user, calls>>

Register ==
    /\ pc = "register"
    /\ LET check == register_check(config)
           withInstance ==
               [config EXCEPT !.instance = [kind |-> "map", base_url |-> base_url]]
       IN IF check = "skip"
          THEN Continue("register") /\ UNCHANGED <<config, calls>>
          ELSE IF check = "register"
          THEN /\ calls' = Append(calls, Call("create_app", base_url, ""))
               /\ \E registered \in BOOLEAN :
                    IF registered
                    THEN /\ config' = register_app(withInstance, "c2", "s2")
                         /\ Continue("register")
                    ELSE /\ config' = withInstance
                         /\ Raise("MastodonError", "register")
          ELSE Raise(check, "register") /\ UNCHANGED <<config, calls>>
    /\ Unchanged_fs
    /\ UNCHANGED <<base_url, attrs, user>>

EnsureUser ==
    /\ pc = "ensure_user"
    /\ config' = ensure_user(config)
    /\ Continue("ensure_user")
    /\ Unchanged_fs
    /\ UNCHANGED <<base_url, attrs, user, calls>>

\* connect(): build the client, log in, fetch the own account.  Each of the
\* three library calls either returns or raises MastodonError.
connect ==
    /\ pc = "connect"
    /\ IF ~Readable(config.instance, "base_url")
       THEN Raise("AttributeError", "connect") /\ UNCHANGED <<calls, attrs, user>>
       ELSE LET ctor == Call("Mastodon", ClientCredFile, config.instance.base_url)
                login == Call("log_in", LoginEmail, LoginPassword)
                me == Call("me", "", "")
            IN \E outcome \in {"ctor_raises", "log_in_raises", "me_raises", "ok"} :
                 CASE outcome = "ctor_raises" ->
                        /\ calls' = calls \o <<ctor>>
                        /\ Raise("MastodonError", "connect")
                        /\ UNCHANGED <<attrs, user>>
                   [] outcome = "log_in_raises" ->
                        /\ calls' = calls \o <<ctor, login>>
                        /\ attrs' = attrs \cup {"mastodon"}
                        /\ Raise("MastodonError", "connect")
                        /\ UNCHANGED user
                   [] outcome = "me_raises" ->
                        /\ calls' = calls \o <<ctor, login, me>>
                        /\ attrs' = attrs \cup {"mastodon"}
                        /\ Raise("MastodonError", "connect")
                        /\ UNCHANGED user
                   [] outcome = "ok" ->
                        /\ calls' = calls \o <<ctor, login, me>>
                        /\ attrs' = attrs \cup {"mastodon", "user"}
                        /\ user' = "account1"
                        /\ Continue("connect")
    /\ Unchanged_fs
    /\ UNCHANGED <<base_url, config>>

\* _save_config(): yaml.safe_dump(self.data, ...) is evaluated before the
\* file is opened for writing, and no statement of the class sets self.data.
SaveSource == "data"

save_config ==
    /\ pc = "save"
    /\ SaveSource \notin attrs
    /\ Raise("AttributeError", "save")
    /\ Unchanged_fs
    /\ UNCHANGED <<base_url, config, attrs, user, calls>>

\* The process ends; the object and its configuration are gone, the file
\* stays.
Exit ==
    /\ pc \in {"done", "failed"}
    /\ pc' = "idle"
    /\ base_url' = None
    /\ config' = NoConfig
    /\ attrs' = {}
    /\ user' = None
    /\ err' = "none"
    /\ failedAt' = "none"
    /\ calls' = <<>>
    /\ steps' = <<>>
    /\ Unchanged_fs

Next ==
    \/ Start
    \/ CheckPaths
    \/ Load
    \/ Resolve
    \/ Register
    \/ EnsureUser
    \/ connect
    \/ save_config
    \/ Exit

Spec == Init /\ [][Next]_vars

----------------------------------------------------------------------------
\* Vocabulary of the properties

Finished == pc \in {"done", "failed"}

\* The step was run (to completion or to its exception) in this construction.
Ran(step) == \E i \in DOMAIN steps : steps[i] = step

\* The library operation was called in this construction.
Made(op) == \E i \in DOMAIN calls : calls[i].op = op

RegCount(cs) == Cardinality({i \in DOMAIN cs : cs[i].op = "create_app"})

\* The Load step succeeded in this construction, and what it loaded.
Loaded == "config" \in attrs
loaded == load_config(fileAtStart)

StoredUrl == loaded.instance.base_url
StoredClientId == loaded.application.client_id

----------------------------------------------------------------------------
\* C1: a missing configuration directory, or a directory without the config
\* file, makes the construction fail with ValueError at the path checks:
\* Load is not run, no library call is made, nothing is created or written.
C1_MissingPathsFailBeforeLoad ==
    (pc \notin {"idle", "check"} /\ pathsAtStart # <<TRUE, TRUE>>) =>
        /\ pc = "failed"
        /\ err = "ValueError"
        /\ failedAt = "check"
        /\ ~Ran("load")
        /\ calls = <<>>
        /\ config = NoConfig
        /\ file = fileAtStart
        /\ <<dirExists, fileExists>> = pathsAtStart

C1_Witness ==
    /\ pc = "failed"
    /\ failedAt = "check"
    /\ pathsAtStart = <<TRUE, FALSE>>

\* C2: with a stored non-empty instance.base_url and a non-empty base_url
\* argument the construction fails with ValueError at Resolve, with or
\* without a client_id, before any library call and with the file untouched.
C2_BothUrlsFailAtResolve ==
    (Loaded /\ pc # "resolve" /\ Truthy(StoredUrl) /\ Truthy(base_url)) =>
        /\ pc = "failed"
        /\ err = "ValueError"
        /\ failedAt = "resolve"
        /\ steps = <<"check", "load", "resolve">>
        /\ calls = <<>>
        /\ config = loaded
        /\ file = fileAtStart

C2_Witness ==
    /\ pc = "failed"
    /\ failedAt = "resolve"
    /\ err = "ValueError"
    /\ Truthy(StoredUrl)
    /\ base_url = "u2"
    /\ Truthy(StoredClientId)

\* C3: with a stored instance.base_url (and a registered application), no
\* base_url argument and no failure of the library, the construction
\* completes: Connect and Persist are run, the client is built on the stored
\* URL and the file holds the stored URL.
C3_StoredUrlRunSucceeds ==
    (/\ Loaded /\ Finished
     /\ Truthy(StoredUrl) /\ base_url = None /\ Truthy(StoredClientId)
     /\ err # "MastodonError") =>
        /\ pc = "done"
        /\ Ran("connect") /\ Ran("save")
        /\ \E i \in DOMAIN calls :
              calls[i].op = "Mastodon" /\ calls[i].b = StoredUrl
        /\ Made("log_in")
        /\ file.instance.base_url = StoredUrl

\* C4: a first run (no client_id, no instance section) with a base_url
\* argument and no failure of the library sets instance.base_url to the
\* argument, registers exactly once, stores client id and secret, and writes
\* all three to the file.
C4_FirstRunRegistersAndPersists ==
    (/\ Loaded /\ Finished
     /\ loaded.application.kind # "none" /\ ~Truthy(StoredClientId)
     /\ loaded.instance.kind = "absent"
     /\ Truthy(base_url)
     /\ err # "MastodonError") =>
        /\ pc = "done"
        /\ RegCount(calls) = 1
        /\ config.instance.base_url = base_url
        /\ Truthy(config.application.client_id)
        /\ Truthy(config.application.client_secret)
        /\ file.instance = config.instance
        /\ file.application = config.application

\* C5: once the file holds a non-empty application.client_id, no step of
\* any later construction calls the registration, the application section
\* of the file stays as it is, and the application section in memory is the
\* one of the file from Load on.
C5_RegisteredApplicationImmutable ==
    [][Truthy(file.application.client_id) =>
        /\ file'.application = file.application
        /\ RegCount(calls') <= RegCount(calls)
        /\ ("config" \in attrs' => config'.application = file.application)]_vars

C5_Witness ==
    /\ Truthy(file.application.client_id)
    /\ runs = 2
    /\ Ran("register")
    /\ Ran("ensure_user")
    /\ config.user = EmptyDict
    /\ fileAtStart.user.kind = "absent"

\* C6: Persist is entered only after check, load, resolve, register,
\* ensure_user and connect have completed in this order; the file differs
\* from its content at the start only if Persist was run; a construction
\* that fails in an earlier step ends with its exception and the file as it
\* was.
C6_FileWrittenOnlyAtTheEnd ==
    /\ pc = "save" =>
          steps = <<"check", "load", "resolve", "register", "ensure_user",
                    "connect">>
    /\ Ran("save") =>
          steps = <<"check", "load", "resolve", "register", "ensure_user",
                    "connect", "save">>
    /\ file # fileAtStart => Ran("save")
    /\ (pc = "failed" /\ failedAt # "save") =>
          /\ err # "none"
          /\ ~Ran("save")
          /\ file = fileAtStart

C6_Witness ==
    /\ pc = "failed"
    /\ failedAt = "connect"
    /\ err = "MastodonError"
    /\ Made("log_in")
    /\ ~Made("me")
    /\ file = fileAtStart

\* C7: once Persist has run, the construction has succeeded and loading the
\* file gives the configuration held in memory.
C7_PersistedConfigRoundTrips ==
    Ran("save") =>
        /\ pc = "done"
        /\ file.doc = "map"
        /\ load_config(file) = config

\* C8, in the case of a stored client_id and an instance section whose
\* base_url is empty or null: with no non-empty base URL in the loaded
\* configuration and none passed in, the construction fails with ValueError
\* and no library call is made.
C8_NoUrlFailsBeforeCollaborators ==
    (/\ Loaded /\ ~Truthy(base_url)
     /\ Readable(loaded.instance, "base_url") /\ ~Truthy(StoredUrl)
     /\ Truthy(StoredClientId)) =>
        /\ calls = <<>>
        /\ Finished => (err = "ValueError")

\* C9 as stated: an instance section (a mapping) without a client_id always
\* ends at the assertion of the Register step.
C9_AlwaysAtConsistencyCheck ==
    (/\ Loaded /\ Finished
     /\ loaded.instance.kind = "map" /\ ~Truthy(StoredClientId)) =>
        /\ pc = "failed"
        /\ failedAt = "register"
        /\ err = "AssertionError"

\* C9 as amended: an instance section without a client_id makes the
\* construction fail no later than the assertion of the Register step: at
\* the assertion when Resolve and the client_id lookup pass, else at those.
\* The registration is not called, the instance section stays as loaded, no
\* login is attempted and the file is not written.
C9_InstanceWithoutClientIdFailsFast ==
    (/\ Loaded
     /\ loaded.instance.kind # "absent" /\ ~Truthy(StoredClientId)) =>
        /\ pc \in {"resolve", "register", "failed"}
        /\ calls = <<>>
        /\ config = loaded
        /\ file = fileAtStart
        /\ ~Ran("ensure_user") /\ ~Ran("connect") /\ ~Ran("save")
        /\ pc = "failed" =>
              /\ failedAt \in {"resolve", "register"}
              /\ (resolve(loaded, base_url) = "ok"
                    /\ loaded.application.kind # "none") =>
                    (failedAt = "register" /\ err = "AssertionError")
              /\ resolve(loaded, base_url) # "ok" =>
                    (failedAt = "resolve" /\ err = resolve(loaded, base_url))

C9_Witness ==
    /\ pc = "failed"
    /\ failedAt = "register"
    /\ err = "AssertionError"
    /\ config.instance = [kind |-> "map", base_url |-> "u1"]
    /\ config.application.kind = "absent"

\* C10: the login is made with user.username and user.password of the
\* loaded configuration, and the client is built from the stored
\* instance.base_url and application.client_id.
C10_LoginUsesStoredCredentials ==
    \A i \in DOMAIN calls :
        /\ calls[i].op = "log_in" =>
              /\ calls[i].a = loaded.user.username
              /\ calls[i].b = loaded.user.password
        /\ calls[i].op = "Mastodon" =>
              /\ calls[i].a = StoredClientId
              /\ calls[i].b = StoredUrl

====
